---------------------------- MODULE Spec2Model ----------------------------
(***************************************************************************)
(* Three Card Poker player-banking simulator.                              *)
(*                                                                         *)
(*   threecardlookup.py  ThreeCardLookup.__init__  (the rank table)        *)
(*   threecardpoker.py   evaluate_hand / evaluate_hands                    *)
(*                       GenerateMultipliers, AdjustForAction              *)
(*                                                                         *)
(* Each component is checked under a specification of its own:             *)
(*   SpecLookup  the construction of the class-level rank table            *)
(*   SpecEval    the evaluation of a dealt hand                            *)
(*   SpecWager   the wager multipliers of a round                          *)
(*   SpecBank    the settlement of a round against the bank                *)
(***************************************************************************)
EXTENDS Integers, Sequences, FiniteSets, TLC

VARIABLES
    pc,          \* position of the operation in progress
    lookup,      \* ThreeCardLookup.lookup, the class-level dict
    rank,        \* local variable `rank` of ThreeCardLookup.__init__
    idx,         \* iterations of the current loop of __init__ already run
    instances,   \* number of ThreeCardLookup() constructions started
    hands,       \* the array of dealt hands, each three encoded cards
    value,       \* what evaluate_hand returned for hands[1]
    hand_values, \* what evaluate_hands returned for hands
    play_decision, \* play_multipliers as first assigned: 1 play, 0 fold, per player
    multipliers, \* what GenerateMultipliers returned: per player <<Play, Ante, Pair Plus>>
    payouts,     \* a round of the payouts handed to AdjustForAction, spot by spot
    bank_amount, \* the bank_amount handed to AdjustForAction
    adj_payouts  \* what AdjustForAction returned for the round

lookupVars == <<lookup, rank, idx, instances>>

evalVars == <<hands, value, hand_values>>

wagerVars == <<play_decision, multipliers>>

bankVars == <<payouts, bank_amount, adj_payouts>>

vars == <<pc, lookupVars, evalVars, wagerVars, bankVars>>

(***************************************************************************)
(* Bounds of the model.                                                    *)
(***************************************************************************)
\* ThreeCardLookup() is constructed at most this many times
MaxInstances == 2

\* a spot's payout handed to AdjustForAction is between -MaxStake and MaxStake
MaxStake == 4

\* the bank_amount handed to AdjustForAction is at most MaxBank
MaxBank == 10

(***************************************************************************)
(* threecardlookup.py: class constants                                     *)
(***************************************************************************)
FLUSH_OFFSET == 430
MIN_STRAIGHT_FLUSH == 1
MAX_STRAIGHT_FLUSH == 12
MIN_TRIPS == 13
MAX_TRIPS == 25
MIN_STRAIGHT == 431
MAX_STRAIGHT == 442
MIN_FLUSH == 443
MAX_FLUSH == 716
MIN_PAIR == 717
MAX_PAIR == 872
MIN_HIGH_CARD == 873
MAX_HIGH_CARD == 1146

\* PRIMES, a Python list indexed from 0: index 0 and index 13 are both the ace
PRIMES == <<41, 2, 3, 5, 7, 11, 13, 17, 19, 23, 29, 31, 37, 41>>

\* self.PRIMES[i]
Prime(i) == PRIMES[i + 1]

\* the values of xrange(a, b, -1), in order: a, a-1, ..., b+1
XRangeDown(a, b) == [k \in 1..(a - b) |-> a - k + 1]

RECURSIVE Flatten(_)
\* the concatenation of a sequence of sequences: the iterations of a nested loop
Flatten(ss) == IF ss = <<>> THEN <<>> ELSE Head(ss) \o Flatten(Tail(ss))

\* d[k] = v on a Python dict: insert or overwrite
Put(d, k, v) == (k :> v) @@ d

\* the empty dict of `lookup = {}`
EmptyDict == << >>

\* the function f, held as a table of its values rather than as a rule
Tabulated(f) == f @@ << >>

(***************************************************************************)
(* ThreeCardLookup.__init__: the iterations of its four loops, and the     *)
(* body of each loop on s = [lookup, rank].                                *)
(***************************************************************************)
\* for i in xrange(13, 1, -1)
StraightIter == XRangeDown(13, 1)

\* for i in xrange(13, 0, -1)
TripsIter == XRangeDown(13, 0)

\* for c1 in xrange(13,0,-1): for c2 in xrange(c1-1,0,-1): for c3 in xrange(c2-1,0,-1)
HighCardIter ==
    Flatten([a \in 1..13 |->
        LET c1 == XRangeDown(13, 0)[a] IN
        Flatten([b \in 1..(c1 - 1) |->
            LET c2 == XRangeDown(c1 - 1, 0)[b] IN
            [c \in 1..(c2 - 1) |-> <<c1, c2, XRangeDown(c2 - 1, 0)[c]>>]])])

\* a plausible slip: the kicker loop written xrange(12, 0, -1), losing the ace kicker
PairIterNoAceKicker ==
    Flatten([a \in 1..13 |-> [b \in 1..12 |-> <<XRangeDown(13, 0)[a], XRangeDown(12, 0)[b]>>]])

\* for i in xrange(13,0,-1): for kicker in xrange(13,0,-1)
PairIter ==
    Flatten([a \in 1..13 |-> [b \in 1..13 |-> <<XRangeDown(13, 0)[a], XRangeDown(13, 0)[b]>>]])

\* self.lookup[PRIMES[i]*PRIMES[i-1]*PRIMES[i-2]] = rank + FLUSH_OFFSET; rank += 1
StraightBody(s, i) ==
    [lookup |-> Put(s.lookup, Prime(i) * Prime(i - 1) * Prime(i - 2), s.rank + FLUSH_OFFSET),
     rank   |-> s.rank + 1]

\* self.lookup[PRIMES[i]**3] = rank; rank += 1
TripsBody(s, i) ==
    [lookup |-> Put(s.lookup, Prime(i) * Prime(i) * Prime(i), s.rank),
     rank   |-> s.rank + 1]

\* a plausible slip: the `not in self.lookup` test left out, so straights are overwritten
HighCardBodyNoSkip(s, c) ==
    [lookup |-> Put(s.lookup, Prime(c[1]) * Prime(c[2]) * Prime(c[3]), s.rank),
     rank   |-> s.rank + 1]

\* multiple = ...; if multiple not in self.lookup: self.lookup[multiple] = rank; rank += 1
HighCardBody(s, c) ==
    LET multiple == Prime(c[1]) * Prime(c[2]) * Prime(c[3]) IN
    IF multiple \notin DOMAIN s.lookup
    THEN [lookup |-> Put(s.lookup, multiple, s.rank), rank |-> s.rank + 1]
    ELSE s

\* if kicker != i: self.lookup[PRIMES[i]**2 * PRIMES[kicker]] = rank; rank += 1
PairBody(s, p) ==
    LET i == p[1]  kicker == p[2] IN
    IF kicker # i
    THEN [lookup |-> Put(s.lookup, Prime(i) * Prime(i) * Prime(kicker), s.rank),
          rank   |-> s.rank + 1]
    ELSE s

\* the value `rank` is set to as __init__ enters a loop
RankAtEntry(phase, r) ==
    CASE phase = "straights" -> MIN_STRAIGHT_FLUSH
      [] phase = "trips"     -> r
      [] phase = "highcards" -> MIN_HIGH_CARD
      [] phase = "pairs"     -> MIN_PAIR
      [] OTHER               -> r

\* the loop that follows a loop of __init__
NextPhase(phase) ==
    CASE phase = "straights" -> "trips"
      [] phase = "trips"     -> "highcards"
      [] phase = "highcards" -> "pairs"
      [] phase = "pairs"     -> "done"

(***************************************************************************)
(* ThreeCardLookup.__init__ as a process: one action per loop iteration.   *)
(***************************************************************************)
\* the iteration just run was the last of its loop: go on to the next loop
Advance(phase, iter, s) ==
    IF idx + 1 = Len(iter)
    THEN /\ pc' = NextPhase(phase)
         /\ idx' = 0
         /\ rank' = RankAtEntry(NextPhase(phase), s.rank)
    ELSE /\ pc' = phase
         /\ idx' = idx + 1
         /\ rank' = s.rank

\* ThreeCardLookup() with the dict made per instance: self.lookup = {} in __init__
ConstructOwnDict ==
    /\ pc \in {"class", "done"}
    /\ instances < MaxInstances
    /\ instances' = instances + 1
    /\ pc' = "straights"
    /\ idx' = 0
    /\ rank' = RankAtEntry("straights", rank)
    /\ lookup' = EmptyDict
    /\ UNCHANGED <<evalVars, wagerVars, bankVars>>

\* ThreeCardLookup(): __init__ starts on the shared class-level dict
Construct ==
    /\ pc \in {"class", "done"}
    /\ instances < MaxInstances
    /\ instances' = instances + 1
    /\ pc' = "straights"
    /\ idx' = 0
    /\ rank' = RankAtEntry("straights", rank)
    /\ UNCHANGED <<lookup, evalVars, wagerVars, bankVars>>

StraightStep ==
    /\ pc = "straights"
    /\ LET s == StraightBody([lookup |-> lookup, rank |-> rank], StraightIter[idx + 1]) IN
        /\ lookup' = s.lookup
        /\ Advance("straights", StraightIter, s)
    /\ UNCHANGED <<instances, evalVars, wagerVars, bankVars>>

TripsStep ==
    /\ pc = "trips"
    /\ LET s == TripsBody([lookup |-> lookup, rank |-> rank], TripsIter[idx + 1]) IN
        /\ lookup' = s.lookup
        /\ Advance("trips", TripsIter, s)
    /\ UNCHANGED <<instances, evalVars, wagerVars, bankVars>>

HighCardStep ==
    /\ pc = "highcards"
    /\ LET s == HighCardBody([lookup |-> lookup, rank |-> rank], HighCardIter[idx + 1]) IN
        /\ lookup' = s.lookup
        /\ Advance("highcards", HighCardIter, s)
    /\ UNCHANGED <<instances, evalVars, wagerVars, bankVars>>

PairStep ==
    /\ pc = "pairs"
    /\ LET s == PairBody([lookup |-> lookup, rank |-> rank], PairIter[idx + 1]) IN
        /\ lookup' = s.lookup
        /\ Advance("pairs", PairIter, s)
    /\ UNCHANGED <<instances, evalVars, wagerVars, bankVars>>

\* the class statement has run (lookup = {}), no instance exists yet
InitLookup ==
    /\ pc = "class"
    /\ lookup = EmptyDict
    /\ rank = 0
    /\ idx = 0
    /\ instances = 0
    /\ hands = << >>
    /\ value = 0
    /\ hand_values = << >>
    /\ play_decision = << >>
    /\ multipliers = << >>
    /\ payouts = << >>
    /\ bank_amount = 0
    /\ adj_payouts = << >>

NextLookup ==
    \/ Construct
    \/ StraightStep
    \/ TripsStep
    \/ HighCardStep
    \/ PairStep

SpecLookup == InitLookup /\ [][NextLookup]_vars


(***************************************************************************)
(* ThreeCardLookup.__init__ run to completion on a dict d: the same loop   *)
(* bodies, folded over the same iterations in the same order (the fold     *)
(* splits the iterations in halves to keep the evaluation shallow).        *)
(***************************************************************************)
RECURSIVE RunLoop(_, _, _, _, _)
\* the iterations lo+1 .. hi of the loop `phase`, in order, from s
RunLoop(phase, iter, lo, hi, s) ==
    IF hi <= lo THEN s
    ELSE IF hi = lo + 1
    THEN CASE phase = "straights" -> StraightBody(s, iter[hi])
           [] phase = "trips"     -> TripsBody(s, iter[hi])
           [] phase = "highcards" -> HighCardBody(s, iter[hi])
           [] phase = "pairs"     -> PairBody(s, iter[hi])
    ELSE LET mid == (lo + hi) \div 2
             s1  == RunLoop(phase, iter, lo, mid, s)
         IN  \* the test is always true: it has s1 computed before the second half runs
             IF s1.rank >= 0 THEN RunLoop(phase, iter, mid, hi, s1) ELSE s1

\* what one call of ThreeCardLookup.__init__ leaves in the dict d
ConstructLookup(d) ==
    LET s0 == [lookup |-> d, rank |-> RankAtEntry("straights", 0)]
        s1 == RunLoop("straights", StraightIter, 0, Len(StraightIter), s0)
        s2 == RunLoop("trips", TripsIter, 0, Len(TripsIter),
                      [s1 EXCEPT !.rank = RankAtEntry("trips", s1.rank)])
        s3 == RunLoop("highcards", HighCardIter, 0, Len(HighCardIter),
                      [s2 EXCEPT !.rank = RankAtEntry("highcards", s2.rank)])
        s4 == RunLoop("pairs", PairIter, 0, Len(PairIter),
                      [s3 EXCEPT !.rank = RankAtEntry("pairs", s3.rank)])
    IN s4.lookup

\* the class-level table once a ThreeCardLookup has been constructed
BuiltLookup == ConstructLookup(EmptyDict)

(***************************************************************************)
(* Rank triples, as the claims about the table speak of them.  A rank is   *)
(* an index 1..13 of PRIMES (1 is the deuce, 13 the ace); a triple is      *)
(* written top rank first.                                                 *)
(***************************************************************************)
Ranks == 1..Len(TripsIter)

RankTriples == {t \in Ranks \X Ranks \X Ranks : t[1] >= t[2] /\ t[2] >= t[3]}

KeyOf(t) == Prime(t[1]) * Prime(t[2]) * Prime(t[3])

IsTripsT(t) == t[1] = t[3]

IsPairT(t) == ~IsTripsT(t) /\ (t[1] = t[2] \/ t[2] = t[3])

IsStraightT(t) ==
    \/ t[1] = t[2] + 1 /\ t[2] = t[3] + 1
    \/ t[1] = Len(TripsIter) /\ t[2] = 2 /\ t[3] = 1

IsHighCardT(t) == t[1] > t[2] /\ t[2] > t[3] /\ ~IsStraightT(t)

\* u is ordered before t: by top rank, then middle, then low
LexAbove(u, t) ==
    \/ u[1] > t[1]
    \/ u[1] = t[1] /\ u[2] > t[2]
    \/ u[1] = t[1] /\ u[2] = t[2] /\ u[3] > t[3]

HighCardTriples == {t \in RankTriples : IsHighCardT(t)}

\* the rank the band layout gives a triple, counted from the band's first rank
BandRank(t) ==
    LET ace == Len(TripsIter) IN
    CASE IsTripsT(t) -> MIN_TRIPS + (ace - t[1])
      [] IsStraightT(t) ->
            IF t[1] = ace /\ t[2] = 2 THEN MAX_STRAIGHT ELSE MIN_STRAIGHT + (ace - t[1])
      [] IsPairT(t) ->
            LET p == t[2]
                k == IF t[1] = t[2] THEN t[3] ELSE t[1]
            IN MIN_PAIR + (ace - 1) * (ace - p) + (ace - k) - (IF k < p THEN 1 ELSE 0)
      [] OTHER -> MIN_HIGH_CARD + Cardinality({u \in HighCardTriples : LexAbove(u, t)})

TableBuilt == pc = "done"

\* C5 as stated: once ThreeCardLookup is constructed the rank table holds
\* exactly 741 entries.
C5_Original ==
    TableBuilt => Cardinality(DOMAIN lookup) = 741

\* C5 as amended: once ThreeCardLookup is constructed the rank table holds
\* exactly 455 entries, one per rank triple (12 straights, 13 trips, 274 other
\* distinct-rank triples, 156 pairs); 741 is the number of hand values, the 286
\* distinct-rank entries counted a second time for their suited value, which
\* is the entry minus FLUSH_OFFSET and is not stored.
C5_TableHas455Entries ==
    TableBuilt =>
        /\ Cardinality(DOMAIN lookup) = 455
        /\ Cardinality({lookup[k] : k \in DOMAIN lookup}
                \cup {lookup[KeyOf(t)] - FLUSH_OFFSET :
                        t \in {u \in RankTriples : u[1] > u[2] /\ u[2] > u[3]}}) = 741

C5_Witness ==
    /\ TableBuilt
    /\ instances = 1
    /\ {KeyOf(<<13, 13, 13>>), KeyOf(<<13, 12, 11>>), KeyOf(<<2, 2, 1>>), KeyOf(<<5, 3, 1>>)}
            \subseteq DOMAIN lookup

\* C6: once ThreeCardLookup is constructed, every multiset of three ranks has
\* its prime product as a key, the keys are exactly those products, distinct
\* multisets have distinct keys and distinct ranks, and the ranks fill the
\* bands without gaps: straights 431..442 (AKQ = 431, A23 = 442), trips 13..25
\* (AAA = 13), pairs 717..872 by pair rank then kicker, the other distinct-rank
\* triples 873..1146 by top, middle, low rank.
C6_TableLayout ==
    TableBuilt =>
        /\ DOMAIN lookup = {KeyOf(t) : t \in RankTriples}
        /\ \A t \in RankTriples : lookup[KeyOf(t)] = BandRank(t)
        /\ \A t, u \in RankTriples :
                t # u => KeyOf(t) # KeyOf(u) /\ lookup[KeyOf(t)] # lookup[KeyOf(u)]
        /\ {lookup[KeyOf(t)] : t \in {u \in RankTriples : IsStraightT(u)}}
                = MIN_STRAIGHT..MAX_STRAIGHT
        /\ {lookup[KeyOf(t)] : t \in {u \in RankTriples : IsTripsT(u)}}
                = MIN_TRIPS..MAX_TRIPS
        /\ {lookup[KeyOf(t)] : t \in {u \in RankTriples : IsPairT(u)}}
                = MIN_PAIR..MAX_PAIR
        /\ {lookup[KeyOf(t)] : t \in HighCardTriples}
                = MIN_HIGH_CARD..MAX_HIGH_CARD
        /\ lookup[KeyOf(<<13, 12, 11>>)] = 431
        /\ lookup[KeyOf(<<13, 2, 1>>)] = 442
        /\ lookup[KeyOf(<<13, 13, 13>>)] = 13

C6_Witness ==
    /\ TableBuilt
    /\ KeyOf(<<13, 2, 1>>) \in DOMAIN lookup
    /\ lookup[KeyOf(<<13, 2, 1>>)] > MIN_STRAIGHT
    /\ lookup[KeyOf(<<4, 2, 1>>)] = MAX_HIGH_CARD


(***************************************************************************)
(* Cards.  A card is the integer the deuces library builds (Card.new):     *)
(*   bit 16+r set for rank r | suit bit << 12 | r << 8 | prime of r        *)
(* with r = 0 (deuce) .. 12 (ace) and the suit bit one of 1, 2, 4, 8.      *)
(* threecardpoker.py reads the prime with `card & 0xFF`, the suit with     *)
(* `& 0xF000` and the rank with `(card >> 8) & 0xF`.                       *)
(***************************************************************************)
\* deuces Card.INT_RANKS: 0 is the deuce, 12 the ace
INT_RANKS == 0..12

\* deuces Card.CHAR_SUIT_TO_INT_SUIT: s = 1, h = 2, d = 4, c = 8
INT_SUITS == {1, 2, 4, 8}

\* deuces Card.new, from the rank and suit the card string names
CardNew(r, suit) == 2 ^ (16 + r) + suit * 4096 + r * 256 + Prime(r + 1)

\* deuces Deck.GetFullDeck()
FULL_DECK == {CardNew(r, suit) : r \in INT_RANKS, suit \in INT_SUITS}

(***************************************************************************)
(* Bitwise operations on 32-bit two's-complement integers (numpy int32),   *)
(* computed nibble by nibble.  \div rounds down and % is non-negative, so  *)
(* Nibble gives the two's-complement digits of a negative number too.      *)
(***************************************************************************)
Bit(x, i) == (x \div (2 ^ i)) % 2

Nibble(x, j) == (x \div (16 ^ j)) % 16

NibbleAnd ==
    Tabulated([p \in 0..15, q \in 0..15 |->
        Bit(p, 0) * Bit(q, 0) + 2 * Bit(p, 1) * Bit(q, 1)
            + 4 * Bit(p, 2) * Bit(q, 2) + 8 * Bit(p, 3) * Bit(q, 3)])

NibbleOr ==
    Tabulated([p \in 0..15, q \in 0..15 |-> p + q - NibbleAnd[p, q]])

\* the int32 with the hexadecimal digits n[0] (lowest) .. n[7] (highest, holding the sign)
Word32(n) ==
    n[0] + 16 * n[1] + 256 * n[2] + 4096 * n[3] + 65536 * n[4] + 1048576 * n[5]
        + 16777216 * n[6] + 268435456 * (IF n[7] < 8 THEN n[7] ELSE n[7] - 16)

\* a & b
And32(a, b) == Word32([j \in 0..7 |-> NibbleAnd[Nibble(a, j), Nibble(b, j)]])

\* a | b
Or32(a, b) == Word32([j \in 0..7 |-> NibbleOr[Nibble(a, j), Nibble(b, j)]])

\* ~a
Not32(a) == 0 - a - 1

(***************************************************************************)
(* ThreeCardPoker.evaluate_hand and ThreeCardPoker.evaluate_hands, on the  *)
(* table lk of self.tc_lookup.lookup.                                      *)
(***************************************************************************)
\* a plausible slip: the flush offset added instead of subtracted
evaluate_hand_offset_added(lk, hand) ==
    LET prime == And32(hand[1], 255) * And32(hand[2], 255) * And32(hand[3], 255)
        suit  == And32(And32(And32(61440, hand[1]), hand[2]), hand[3])
    IN lk[prime] + (IF suit # 0 THEN 1 ELSE 0) * FLUSH_OFFSET

\* prime = 1; suit = 0xF000; for card in hand: prime *= card & 0xFF; suit &= card
\* suited = 1 if suit else 0; return lookup[prime] - suited * FLUSH_OFFSET
evaluate_hand(lk, hand) ==
    LET prime  == 1 * And32(hand[1], 255) * And32(hand[2], 255) * And32(hand[3], 255)
        suit   == And32(And32(And32(61440, hand[1]), hand[2]), hand[3])
        suited == IF suit # 0 THEN 1 ELSE 0
    IN lk[prime] - suited * FLUSH_OFFSET

\* a plausible slip: the flush test of the batch version taken on the bitwise OR of the cards
evaluate_hands_or_flush(lk, hs) ==
    [i \in 1..Len(hs) |->
        LET hand_primes == And32(hs[i][1], 255) * And32(hs[i][2], 255) * And32(hs[i][3], 255)
            flush_adj   == IF And32(Or32(Or32(hs[i][1], hs[i][2]), hs[i][3]), 61440) # 0
                           THEN FLUSH_OFFSET ELSE 0
        IN lk[hand_primes] - flush_adj]

\* hand_ranks = hands & 0xFF; hand_primes = multiply.reduce(hand_ranks, axis=1)
\* hand_flush_adj = where(~bitwise_or.reduce(invert(hands), axis=1) & 0xF000, FLUSH_OFFSET, 0)
\* hand_values = vectorize(lookup)(hand_primes) - hand_flush_adj
evaluate_hands(lk, hs) ==
    [i \in 1..Len(hs) |->
        LET hand_ranks  == [j \in 1..3 |-> And32(hs[i][j], 255)]
            hand_primes == hand_ranks[1] * hand_ranks[2] * hand_ranks[3]
            inverted    == [j \in 1..3 |-> Not32(hs[i][j])]
            or_reduce   == Or32(Or32(inverted[1], inverted[2]), inverted[3])
            flush_adj   == IF And32(Not32(or_reduce), 61440) # 0 THEN FLUSH_OFFSET ELSE 0
        IN lk[hand_primes] - flush_adj]

(***************************************************************************)
(* SpecEval: one hand of three distinct cards of the deck has been dealt;  *)
(* evaluate_hand and then evaluate_hands are run on it.                    *)
(***************************************************************************)
\* every ordered hand GenerateHands can deal: three cards drawn without replacement
DealtHands ==
    {h \in FULL_DECK \X FULL_DECK \X FULL_DECK : h[1] # h[2] /\ h[1] # h[3] /\ h[2] # h[3]}

InitEval ==
    /\ pc = "dealt"
    /\ lookup = BuiltLookup
    /\ rank = 0
    /\ idx = 0
    /\ instances = 1
    /\ hands \in {<<h>> : h \in DealtHands}
    /\ value = 0
    /\ hand_values = << >>
    /\ play_decision = << >>
    /\ multipliers = << >>
    /\ payouts = << >>
    /\ bank_amount = 0
    /\ adj_payouts = << >>

EvaluateHand ==
    /\ pc = "dealt"
    /\ value' = evaluate_hand(lookup, hands[1])
    /\ pc' = "evaluated"
    /\ UNCHANGED <<lookupVars, hands, hand_values, wagerVars, bankVars>>

EvaluateHands ==
    /\ pc = "evaluated"
    /\ hand_values' = evaluate_hands(lookup, hands)
    /\ pc' = "batch"
    /\ UNCHANGED <<lookupVars, hands, value, wagerVars, bankVars>>

NextEval ==
    \/ EvaluateHand
    \/ EvaluateHands

SpecEval == InitEval /\ [][NextEval]_vars


(***************************************************************************)
(* Hands as the claims about evaluation speak of them: the ranks and suits *)
(* of the cards, read off the card layout arithmetically.                  *)
(***************************************************************************)
RankOf(card) == (card \div 256) % 16

SuitOf(card) == (card \div 4096) % 16

\* the ranks of a hand as a rank triple of the table, top rank first
TripleOf(hand) ==
    LET r   == [j \in 1..3 |-> RankOf(hand[j]) + 1]
        top == IF r[1] >= r[2] /\ r[1] >= r[3] THEN r[1] ELSE IF r[2] >= r[3] THEN r[2] ELSE r[3]
        low == IF r[1] <= r[2] /\ r[1] <= r[3] THEN r[1] ELSE IF r[2] <= r[3] THEN r[2] ELSE r[3]
    IN <<top, r[1] + r[2] + r[3] - top - low, low>>

OneSuit(hand) == SuitOf(hand[1]) = SuitOf(hand[2]) /\ SuitOf(hand[2]) = SuitOf(hand[3])

DistinctRanks(hand) ==
    Cardinality({RankOf(hand[1]), RankOf(hand[2]), RankOf(hand[3])}) = 3

\* the class of a hand, 1 the strongest:
\* 1 straight flush, 2 trips, 3 straight, 4 flush, 5 pair, 6 high card
ClassOf(hand) ==
    LET t == TripleOf(hand) IN
    CASE IsStraightT(t) /\ OneSuit(hand) -> 1
      [] IsTripsT(t)                     -> 2
      [] IsStraightT(t)                  -> 3
      [] OneSuit(hand)                   -> 4
      [] IsPairT(t)                      -> 5
      [] OTHER                           -> 6

BandOf(class) ==
    CASE class = 1 -> MIN_STRAIGHT_FLUSH..MAX_STRAIGHT_FLUSH
      [] class = 2 -> MIN_TRIPS..MAX_TRIPS
      [] class = 3 -> MIN_STRAIGHT..MAX_STRAIGHT
      [] class = 4 -> MIN_FLUSH..MAX_FLUSH
      [] class = 5 -> MIN_PAIR..MAX_PAIR
      [] class = 6 -> MIN_HIGH_CARD..MAX_HIGH_CARD

\* the values evaluate_hand gives the hands of each class, over every hand of the deck
\* (each once, its cards in increasing order)
ClassValues ==
    LET sorted == {h \in FULL_DECK \X FULL_DECK \X FULL_DECK : h[1] < h[2] /\ h[2] < h[3]}
        valued == {<<ClassOf(h), evaluate_hand(BuiltLookup, h)>> : h \in sorted}
    IN Tabulated([c \in 1..6 |-> {cv[2] : cv \in {x \in valued : x[1] = c}}])

HandEvaluated == pc \in {"evaluated", "batch"}

\* C7: for three cards of distinct ranks, evaluate_hand returns a value that
\* depends on the ranks alone when the suits do not all match (any suits, any
\* order of the cards: the table entry of the rank triple), and exactly
\* FLUSH_OFFSET (430) less when the three cards share a suit; evaluate_hands
\* returns for every hand what evaluate_hand returns.
C7_SuitAndOrderIndependent ==
    /\ HandEvaluated /\ DistinctRanks(hands[1]) =>
            value = lookup[KeyOf(TripleOf(hands[1]))]
                        - (IF OneSuit(hands[1]) THEN 430 ELSE 0)
    /\ pc = "batch" => hand_values = <<value>>

\* 4d Ad 2d, a flush dealt out of rank order
C7_Witness ==
    /\ pc = "batch"
    /\ hands = << <<CardNew(2, 4), CardNew(12, 4), CardNew(0, 4)>> >>
    /\ value = lookup[KeyOf(<<13, 3, 1>>)] - FLUSH_OFFSET
    /\ hand_values = <<506>>

\* C8: the value of a hand of three distinct cards lies in the band of the
\* hand's class (1-12, 13-25, 431-442, 443-716, 717-872, 873-1146), and it is
\* strictly lower than the value of every hand of the deck of a strictly weaker
\* class (straight flush > trips > straight > flush > pair > high card).
C8_ClassOrder ==
    HandEvaluated =>
        /\ value \in BandOf(ClassOf(hands[1]))
        /\ \A c \in 1..6 :
                ClassOf(hands[1]) < c => \A v \in ClassValues[c] : value < v

\* a pair of deuces with a three kicker, against which every high-card hand is weaker
C8_Witness ==
    /\ pc = "evaluated"
    /\ ClassOf(hands[1]) = 5
    /\ value = MAX_PAIR
    /\ MIN_HIGH_CARD \in ClassValues[6]


(***************************************************************************)
(* ThreeCardPoker.GenerateMultipliers, for one round: hs[1] is the         *)
(* dealer's hand, hs[2..] the players'; vals are the values evaluate_hands *)
(* gave them.  The 6-card bonus (the deuces 5-card evaluator) is left out. *)
(***************************************************************************)
\* x >> n
ShiftRight(x, n) == x \div (2 ^ n)

\* deuces Card.get_rank_int
get_rank_int(card) == And32(ShiftRight(card, 8), 15)

\* np.copysign(1, x) stored into an int32 array: x = 0 is +0.0 as a float, whose sign is +
copysign1(x) == IF x < 0 THEN 0 - 1 ELSE 1

\* Card.hand_to_binary(['Ac','2d','4d']), ['Kc','2d','3d'], ['Qc','2d','3d']
AceHighHand == <<CardNew(12, 8), CardNew(0, 4), CardNew(2, 4)>>

KingHighHand == <<CardNew(11, 8), CardNew(0, 4), CardNew(1, 4)>>

QueenHighHand == <<CardNew(10, 8), CardNew(0, 4), CardNew(1, 4)>>

\* self.evaluate_hand(...) of the three hands, on the table ThreeCardPoker.__init__ had built
ACE_HIGH == evaluate_hand(BuiltLookup, AceHighHand)

KING_HIGH == evaluate_hand(BuiltLookup, KingHighHand)

QUEEN_HIGH == evaluate_hand(BuiltLookup, QueenHighHand)

\* Card.get_rank_int(Card.new('Ac')), Card.get_rank_int(Card.new('Kc'))
ACE == get_rank_int(CardNew(12, 8))

KING == get_rank_int(CardNew(11, 8))

\* (card >> 8) & 0xF, for each card of the deck
FaceUpRank == Tabulated([card \in FULL_DECK |-> And32(ShiftRight(card, 8), 15)])

\* hands.reshape(1,-1)[0][0::all_hands*3] for the round: the first card of the dealer's hand
dealer_face_up(hs) == Flatten(hs)[1]

\* win_lose = np.copysign(1, dealer_values - player_values)
win_lose(dealer_value, player_value) == copysign1(dealer_value - player_value)

\* the house-way decision with the ace face up not told from the other ranks
PlayDecisionAnyFaceUp(face_up, player_value) ==
    IF player_value <= ACE_HIGH THEN 1
    ELSE IF player_value <= KING_HIGH
         THEN (IF FaceUpRank[face_up] <= ACE THEN 1 ELSE 0)
    ELSE IF player_value <= QUEEN_HIGH
         THEN (IF FaceUpRank[face_up] < KING THEN 1 ELSE 0)
    ELSE 0

\* the house-way decision replaced by playing every hand
PlayDecisionEveryHand(face_up, player_value) == 1

\* play_multipliers as first assigned: the house-way decision
PlayDecision(face_up, player_value) ==
    IF player_value <= ACE_HIGH THEN 1
    ELSE IF player_value <= KING_HIGH
         THEN (IF FaceUpRank[face_up] < ACE THEN 1 ELSE 0)
    ELSE IF player_value <= QUEEN_HIGH
         THEN (IF FaceUpRank[face_up] < KING THEN 1 ELSE 0)
    ELSE 0

\* pair_plus_multipliers with the innermost np.where paying 40 on both sides
PairPlusNoTopPay(play, player_value) ==
    IF play = 0 THEN 0 - 1
    ELSE IF player_value > MAX_PAIR THEN 0 - 1
    ELSE IF player_value > MAX_FLUSH THEN 1
    ELSE IF player_value > MAX_STRAIGHT THEN 3
    ELSE IF player_value > MAX_TRIPS THEN 6
    ELSE IF player_value > MAX_STRAIGHT_FLUSH THEN 30
    ELSE 40

\* pair_plus_multipliers
PairPlus(play, player_value) ==
    IF play = 0 THEN 0 - 1
    ELSE IF player_value > MAX_PAIR THEN 0 - 1
    ELSE IF player_value > MAX_FLUSH THEN 1
    ELSE IF player_value > MAX_STRAIGHT THEN 3
    ELSE IF player_value > MAX_TRIPS THEN 6
    ELSE IF player_value > MAX_STRAIGHT_FLUSH THEN 30
    ELSE IF player_value > 1 THEN 40
    ELSE 50

\* ante_multipliers without the outer np.where on play_multipliers == 0
AnteFoldIgnored(play, wl, dealer_value) ==
    IF wl > 0 - 1 THEN wl
    ELSE IF dealer_value <= QUEEN_HIGH THEN 0 - 1
    ELSE 0

\* ante_multipliers
Ante(play, wl, dealer_value) ==
    IF play = 0 THEN 0 - 1
    ELSE IF wl > 0 - 1 THEN wl
    ELSE IF dealer_value <= QUEEN_HIGH THEN 0 - 1
    ELSE 0

\* play_multipliers as assigned last, without the np.where on dealer_values <= QUEEN_HIGH
PlayResultUnqualified(play, wl, dealer_value) == play * wl

\* play_multipliers as assigned last
PlayResult(play, wl, dealer_value) ==
    IF dealer_value <= QUEEN_HIGH THEN play * wl ELSE 0

\* the house-way decisions of the round, per player
PlayDecisions(hs, vals) ==
    [p \in 1..(Len(hs) - 1) |-> PlayDecision(dealer_face_up(hs), vals[p + 1])]

\* multipliers[round, player, 0..2]
GeneratedMultipliers(hs, vals) ==
    [p \in 1..(Len(hs) - 1) |->
        LET play == PlayDecisions(hs, vals)[p]
            wl   == win_lose(vals[1], vals[p + 1])
        IN <<PlayResult(play, wl, vals[1]),
             Ante(play, wl, vals[1]),
             PairPlus(play, vals[p + 1])>>]

(***************************************************************************)
(* SpecWager: a round of the dealer's hand and one player's hand has been  *)
(* dealt from one deck and evaluated; GenerateMultipliers is run on it.    *)
(* The player holds every kind of hand of the deck; the dealer holds every *)
(* kind of hand made of the ranks DealerRanks, with each of its cards      *)
(* dealt first.  The suits are fixed per kind of hand (the dealer on       *)
(* spades, hearts and diamonds, the player on clubs and diamonds, moved    *)
(* aside where the dealer holds the card).                                 *)
(***************************************************************************)
\* a rank triple with or without matching suits: the 741 kinds of hand
HandKinds ==
    {k \in RankTriples \X BOOLEAN : k[2] => (k[1][1] > k[1][2] /\ k[1][2] > k[1][3])}

CardsOf(t, suits) == [j \in 1..3 |-> CardNew(t[j] - 1, suits[j])]

\* the dealer's suits for a triple: all spades when suited
DealerSuits(t, suited) ==
    IF suited THEN <<1, 1, 1>>
    ELSE IF IsTripsT(t) THEN <<1, 2, 4>>
    ELSE IF t[1] = t[2] THEN <<1, 2, 1>>
    ELSE IF t[2] = t[3] THEN <<1, 1, 2>>
    ELSE <<1, 1, 2>>

\* the suits a player's hand may take, in order of preference
PlayerSuits(t, suited) ==
    IF suited THEN << <<8, 8, 8>> >>
    ELSE IF IsTripsT(t) THEN << <<8, 4, 1>>, <<8, 4, 2>> >>
    ELSE IF t[1] = t[2] THEN << <<8, 4, 8>> >>
    ELSE IF t[2] = t[3] THEN << <<8, 8, 4>> >>
    ELSE << <<8, 8, 4>>, <<8, 4, 8>>, <<4, 8, 8>> >>

\* the hand with its card f dealt first
FirstCard(hand, f) ==
    CASE f = 1 -> hand
      [] f = 2 -> <<hand[2], hand[1], hand[3]>>
      [] f = 3 -> <<hand[3], hand[1], hand[2]>>

\* the ranks of the dealer's cards: deuce, three, four, jack, queen, king and ace, which
\* put the dealer on both sides of queen high and of every face-up rank the player's
\* decision looks at
DealerRanks == {r \in Ranks : r <= 3 \/ r >= 10}

DealerKinds == {k \in HandKinds : \A j \in 1..3 : k[1][j] \in DealerRanks}

\* the dealer's hands: every kind, with each of its cards as the face-up card
DealerHands ==
    {FirstCard(CardsOf(k[1], DealerSuits(k[1], k[2])), f) :
        k \in DealerKinds, f \in 1..3}

PlayerHandsOf(k) ==
    LET ss == PlayerSuits(k[1], k[2]) IN [i \in 1..Len(ss) |-> CardsOf(k[1], ss[i])]

\* a dealt hand with the value evaluate_hands gives it, computed once per hand
Valued(h) == [hand |-> h, value |-> evaluate_hands(BuiltLookup, <<h>>)[1]]

DealerDeals == {Valued(h) : h \in DealerHands}

\* per kind of hand, the player's hands of that kind in order of preference
PlayerDeals ==
    {[i \in 1..Len(PlayerHandsOf(k)) |-> Valued(PlayerHandsOf(k)[i])] : k \in HandKinds}

\* the choices of o that take no card of the dealer's hand d; none when the deck has too
\* few cards of a rank for both hands
FreeBeside(o, d) ==
    {i \in DOMAIN o :
        \A a \in 1..3, b \in 1..3 : o[i].hand[a] # d[b]}

InitWager ==
    /\ pc = "valued"
    /\ lookup = BuiltLookup
    /\ rank = 0
    /\ idx = 0
    /\ instances = 1
    /\ \E d \in DealerDeals, o \in PlayerDeals :
        LET free == FreeBeside(o, d.hand) IN
        /\ free # {}
        /\ LET p == o[CHOOSE i \in free : \A j \in free : i <= j] IN
            /\ hands = <<d.hand, p.hand>>
            /\ hand_values = <<d.value, p.value>>
    /\ value = 0
    /\ play_decision = << >>
    /\ multipliers = << >>
    /\ payouts = << >>
    /\ bank_amount = 0
    /\ adj_payouts = << >>

GenerateMultipliers ==
    /\ pc = "valued"
    /\ play_decision' = PlayDecisions(hands, hand_values)
    /\ multipliers' = GeneratedMultipliers(hands, hand_values)
    /\ pc' = "multiplied"
    /\ UNCHANGED <<lookupVars, evalVars, bankVars>>

NextWager == GenerateMultipliers

SpecWager == InitWager /\ [][NextWager]_vars

(***************************************************************************)
(* The multipliers of a round, as the claims speak of them.                *)
(***************************************************************************)
Multiplied == pc = "multiplied"

DealerValue == hand_values[1]

PlayerValue == hand_values[2]

PlayMultiplier == multipliers[1][1]

AnteMultiplier == multipliers[1][2]

PairPlusMultiplier == multipliers[1][3]

\* C1: when the player's hand value equals the dealer's, the Ante multiplier
\* and the Play multiplier are both 0, whatever the dealer's face-up card and
\* whether or not the dealer qualifies.
C1_TieIsPush ==
    Multiplied /\ PlayerValue = DealerValue =>
        AnteMultiplier = 0 /\ PlayMultiplier = 0

\* C2: when the house-way decision is to fold, the Ante multiplier is -1, the
\* Pair Plus multiplier is -1 and the final Play multiplier is 0, for every
\* dealer value, player value and face-up card.
C2_FoldForfeits ==
    Multiplied /\ play_decision[1] = 0 =>
        /\ AnteMultiplier = 0 - 1
        /\ PairPlusMultiplier = 0 - 1
        /\ PlayMultiplier = 0

\* a folded hand that is stronger than the dealer's
C2_Witness ==
    /\ Multiplied
    /\ play_decision[1] = 0
    /\ PlayerValue < DealerValue
    /\ multipliers[1] = <<0, 0 - 1, 0 - 1>>

HighCardTop(hand) == IF ClassOf(hand) = 6 THEN TripleOf(hand)[1] ELSE 0

\* C10: with P the player's value and F the rank of the dealer's first card,
\* the decision is play if P <= 936; else play if P <= 990 and F is below the
\* ace; else play if P <= 1034 and F is below the king; else fold.  936, 990
\* and 1034 are the values of A-4-2, K-3-2 and Q-3-2 unsuited, the weakest
\* ace-high, king-high and queen-high hands without a pair, so a hand with a
\* pair or better is always played.
C10_HouseWay ==
    /\ lookup[KeyOf(<<13, 3, 1>>)] = 936
    /\ lookup[KeyOf(<<12, 2, 1>>)] = 990
    /\ lookup[KeyOf(<<11, 2, 1>>)] = 1034
    /\ Multiplied =>
        LET P == PlayerValue
            F == RankOf(hands[1][1]) + 1
        IN  /\ play_decision[1] =
                    IF P <= 936 THEN 1
                    ELSE IF P <= 990 /\ F < 13 THEN 1
                    ELSE IF P <= 1034 /\ F < 12 THEN 1
                    ELSE 0
            /\ HighCardTop(hands[2]) = 13 => P <= 936
            /\ HighCardTop(hands[2]) = 12 => P > 936 /\ P <= 990
            /\ HighCardTop(hands[2]) = 11 => P > 990 /\ P <= 1034
            /\ HighCardTop(hands[2]) \in 1..10 => P > 1034
            /\ ClassOf(hands[2]) < 6 => P < 936 /\ play_decision[1] = 1

\* K-3-2 unsuited folded to the dealer's ace
C10_Witness ==
    /\ Multiplied
    /\ TripleOf(hands[2]) = <<12, 2, 1>>
    /\ PlayerValue = 990
    /\ RankOf(hands[1][1]) + 1 = 13
    /\ play_decision[1] = 0

(***************************************************************************)
(* threecardpoker.py: AdjustForAction                                      *)
(***************************************************************************)
\* the betting spots of a hand: play, ante, pair plus, 6-card
SPOTS_PER_PLAYER == 4

Abs(x) == IF x < 0 THEN 0 - x ELSE x

\* np.copysign(x, y) stored into an int32 array: the magnitude of x with the sign of y,
\* an integer y = 0 being +0.0
copysign(x, y) == IF y < 0 THEN 0 - Abs(x) ELSE Abs(x)

RECURSIVE cumsum(_, _)
\* np.absolute(payouts).cumsum(axis=1)[i]
cumsum(ps, i) == IF i = 0 THEN 0 ELSE cumsum(ps, i - 1) + Abs(ps[i])

cum_payout(ps) == [i \in 1..Len(ps) |-> cumsum(ps, i)]

\* adj_payouts with the whole bank as what is left at every spot
AdjustedRoundWholeBank(ps, bank) ==
    LET cum == cum_payout(ps) IN
    [i \in 1..Len(ps) |->
        IF i = 1
        THEN (IF cum[1] < bank THEN ps[1] ELSE copysign(bank, ps[1]))
        ELSE IF cum[i] < bank THEN ps[i]
        ELSE IF cum[i - 1] < bank THEN copysign(bank, ps[i])
        ELSE 0]

\* adj_payouts with the spots after the bank is exhausted still paid
AdjustedRoundPaidOn(ps, bank) ==
    LET cum == cum_payout(ps) IN
    [i \in 1..Len(ps) |->
        IF i = 1
        THEN (IF cum[1] < bank THEN ps[1] ELSE copysign(bank, ps[1]))
        ELSE IF cum[i] < bank THEN ps[i]
        ELSE IF cum[i - 1] < bank THEN copysign(bank - cum[i - 1], ps[i])
        ELSE ps[i]]

\* adj_payouts of a round: column 0, then the loop over the columns 1..num_players*4-1
AdjustedRound(ps, bank) ==
    LET cum == cum_payout(ps) IN
    [i \in 1..Len(ps) |->
        IF i = 1
        THEN (IF cum[1] < bank THEN ps[1] ELSE copysign(bank, ps[1]))
        ELSE IF cum[i] < bank THEN ps[i]
        ELSE IF cum[i - 1] < bank THEN copysign(bank - cum[i - 1], ps[i])
        ELSE 0]

(***************************************************************************)
(* SpecBank: AdjustForAction is called on a round of one player's four     *)
(* spots, each between -MaxStake and MaxStake, with a bank_amount of at    *)
(* most MaxBank; the function checks nothing about bank_amount, so zero    *)
(* and a negative amount are among its inputs.                             *)
(***************************************************************************)
Amounts == (0 - MaxStake)..MaxStake

BankAmounts == (0 - 1)..MaxBank

InitBank ==
    /\ pc = "staked"
    /\ lookup = BuiltLookup
    /\ rank = 0
    /\ idx = 0
    /\ instances = 1
    /\ hands = << >>
    /\ value = 0
    /\ hand_values = << >>
    /\ play_decision = << >>
    /\ multipliers = << >>
    /\ payouts \in [1..SPOTS_PER_PLAYER -> Amounts]
    /\ bank_amount \in BankAmounts
    /\ adj_payouts = << >>

AdjustForAction ==
    /\ pc = "staked"
    /\ adj_payouts' = AdjustedRound(payouts, bank_amount)
    /\ pc' = "settled"
    /\ UNCHANGED <<lookupVars, evalVars, wagerVars, payouts, bank_amount>>

NextBank == AdjustForAction

SpecBank == InitBank /\ [][NextBank]_vars

(***************************************************************************)
(* The settlement of a round, as the claims speak of it.                   *)
(***************************************************************************)
Settled == pc = "settled"

RECURSIVE RunningSum(_)
\* the sum of the absolute values of the spots up to spot i
RunningSum(i) == IF i = 0 THEN 0 ELSE RunningSum(i - 1) + Abs(payouts[i])

RECURSIVE SettledSum(_)
\* the sum of the settled payouts up to spot i
SettledSum(i) == IF i = 0 THEN 0 ELSE SettledSum(i - 1) + adj_payouts[i]

\* the amount m given the sign of the spot's value p
WithSignOf(m, p) == IF p < 0 THEN 0 - m ELSE m

\* C3: the spots settle in order against the running sum of absolute values:
\* a spot whose running sum is under the bank amount settles at its value;
\* the first spot whose running sum reaches or exceeds the bank amount settles
\* at what is left (the bank amount less the running sum before it, the whole
\* bank amount for the first spot) with the sign of its value; every spot
\* after that one settles at 0.  Spots 3,-4,1 give 3,-2,0 with bank 5 and are
\* unchanged with bank 10.
C3_SettledInOrder ==
    Settled /\ bank_amount >= 0 =>
        /\ \A i \in 1..Len(payouts) :
            /\ RunningSum(i) < bank_amount => adj_payouts[i] = payouts[i]
            /\ (RunningSum(i) >= bank_amount
                    /\ \A j \in 1..(i - 1) : RunningSum(j) < bank_amount) =>
                adj_payouts[i] = WithSignOf(bank_amount - RunningSum(i - 1), payouts[i])
            /\ (\E j \in 1..(i - 1) : RunningSum(j) >= bank_amount) => adj_payouts[i] = 0
        /\ payouts = <<3, 0 - 4, 1, 0>> /\ bank_amount = 5 =>
                adj_payouts = <<3, 0 - 2, 0, 0>>
        /\ payouts = <<3, 0 - 4, 1, 0>> /\ bank_amount = 10 => adj_payouts = payouts

\* the example of the claim: the second spot exhausts a bank of 5
C3_Witness ==
    /\ Settled
    /\ payouts = <<3, 0 - 4, 1, 0>>
    /\ bank_amount = 5
    /\ adj_payouts = <<3, 0 - 2, 0, 0>>

\* C4: for every round of spot values and every positive bank amount, the sum
\* of the settled payouts of the round has magnitude at most the bank amount.
C4_SumWithinBank ==
    Settled /\ bank_amount > 0 =>
        Abs(SettledSum(Len(adj_payouts))) <= bank_amount

\* four winning spots of 4 against a bank of 10: 4, 4, 2, 0 is paid
C4_Witness ==
    /\ Settled
    /\ bank_amount = MaxBank
    /\ payouts = <<4, 4, 4, 4>>
    /\ RunningSum(4) > bank_amount
    /\ SettledSum(4) = bank_amount

(***************************************************************************)
(* The resolution of the Play bet and of the Ante bet.                     *)
(***************************************************************************)
\* C11: when the dealer does not qualify (the dealer's value is above 1034,
\* the value of Q-3-2) the final Play multiplier is 0 whatever the player
\* holds; when the dealer qualifies, a played hand strictly stronger than the
\* dealer's has Play +1 and a played hand strictly weaker has Play -1.
C11_PlayResolution ==
    Multiplied =>
        /\ DealerValue > 1034 => PlayMultiplier = 0
        /\ DealerValue <= 1034 /\ play_decision[1] = 1 /\ PlayerValue < DealerValue =>
                PlayMultiplier = 1
        /\ DealerValue <= 1034 /\ play_decision[1] = 1 /\ PlayerValue > DealerValue =>
                PlayMultiplier = 0 - 1

\* a played hand that beats a jack-high dealer: the Play bet is pushed
C11_Witness ==
    /\ Multiplied
    /\ ClassOf(hands[1]) = 6
    /\ TripleOf(hands[1])[1] = 10
    /\ DealerValue > 1034
    /\ play_decision[1] = 1
    /\ PlayerValue < DealerValue
    /\ PlayMultiplier = 0

(***************************************************************************)
(* The bank amount AdjustForAction is given.                               *)
(***************************************************************************)
\* C12: a bank amount of zero or less is rejected before any settlement: the
\* call ends in an error and no settled payouts are produced.
C12_NonPositiveBankRejected ==
    bank_amount <= 0 => pc # "settled" /\ adj_payouts = << >>

C14_ConstructionIdempotent ==
    /\ TableBuilt /\ instances = 1 => lookup = ConstructLookup(EmptyDict)
    /\ instances >= 2 => lookup = BuiltLookup
    /\ instances >= 2 /\ pc = "highcards" =>
            LET c == HighCardIter[idx + 1] IN
            Prime(c[1]) * Prime(c[2]) * Prime(c[3]) \in DOMAIN lookup

\* the second construction at the last iteration of its high-card pass: every key so
\* far was present and skipped, so rank has not moved from MIN_HIGH_CARD
C14_Witness ==
    /\ instances = 2
    /\ pc = "highcards"
    /\ idx = Len(HighCardIter) - 1
    /\ rank = MIN_HIGH_CARD
    /\ lookup = BuiltLookup

============================================================================
